---- MODULE Spec2Model ----
(***************************************************************************)
(* RAGAIAtScale.py: the crawl queue over the school_data collection, the   *)
(* de-duplicating document store, and the workers that claim a site, crawl *)
(* it through the provider and store its cleaned pages.                    *)
(*                                                                         *)
(* A string is the sequence of its Unicode code points, a byte string a    *)
(* sequence of numbers 0..255.  Every worker is one operating system       *)
(* process running scrape_and_store; the two collections are shared, and   *)
(* every MongoDB operation is one atomic step.                             *)
(***************************************************************************)
EXTENDS Integers, Sequences, FiniteSets, Bags, TLC

(***************************************************************************)
(* Configuration (src lines 19-29).  The two size limits and the batch     *)
(* limit are scaled down so that short texts and short batches reach them. *)
(***************************************************************************)
RETRY_LIMIT == 3
MAX_DOC_SIZE == 4
URL_PROCESS_LIMIT == 2
UPDATE_EXISTING == FALSE
\* pymongo's max_bson_size, the limit behind DocumentTooLarge (scaled down).
MAX_BSON_SIZE == 6

\* Bounds of the model: runs of the script per process, and the lengths of
\* the input strings of the two pure-function specifications.
MaxRuns == 2
MaxBody == 3
MaxText == 3

\* Python's None for a page content: no string (no code point is negative).
None == <<-1>>

(***************************************************************************)
(* Strings.                                                                *)
(***************************************************************************)
\* 'http://' and 'https://' (h 104, t 116, p 112, s 115, ':' 58, '/' 47).
HTTP == <<104, 116, 116, 112, 58, 47, 47>>
HTTPS == <<104, 116, 116, 112, 115, 58, 47, 47>>

\* str.startswith(prefix)
startswith(s, prefix) ==
    /\ Len(s) >= Len(prefix)
    /\ SubSeq(s, 1, Len(prefix)) = prefix

\* str.rstrip(c): every trailing c is removed, not only one.
RECURSIVE rstrip(_, _)
rstrip(s, c) ==
    IF Len(s) > 0 /\ s[Len(s)] = c
    THEN rstrip(SubSeq(s, 1, Len(s) - 1), c)
    ELSE s

normalize_base_url(url) ==
    LET u == IF ~(startswith(url, HTTP) \/ startswith(url, HTTPS))
             THEN HTTPS \o url
             ELSE url
    IN  rstrip(u, 47)

(***************************************************************************)
(* UTF-8: str.encode('utf-8') and bytes.decode('utf-8', errors='ignore').  *)
(***************************************************************************)
encode_char(cp) ==
    IF cp < 128 THEN <<cp>>
    ELSE IF cp < 2048 THEN <<192 + (cp \div 64), 128 + (cp % 64)>>
    ELSE IF cp < 65536
         THEN <<224 + (cp \div 4096), 128 + ((cp \div 64) % 64), 128 + (cp % 64)>>
    ELSE <<240 + (cp \div 262144), 128 + ((cp \div 4096) % 64),
           128 + ((cp \div 64) % 64), 128 + (cp % 64)>>

RECURSIVE encode(_)
encode(text) ==
    IF text = <<>> THEN <<>> ELSE encode_char(Head(text)) \o encode(Tail(text))

\* Number of continuation bytes a lead byte announces; -1 for a byte that
\* cannot start a character.
continuation_count(b) ==
    IF b < 128 THEN 0
    ELSE IF b >= 192 /\ b < 224 THEN 1
    ELSE IF b >= 224 /\ b < 240 THEN 2
    ELSE IF b >= 240 /\ b < 248 THEN 3
    ELSE -1

is_continuation(b) == b >= 128 /\ b < 192

decode_char(bs, n) ==
    IF n = 0 THEN bs[1]
    ELSE IF n = 1 THEN (bs[1] - 192) * 64 + (bs[2] - 128)
    ELSE IF n = 2 THEN (bs[1] - 224) * 4096 + (bs[2] - 128) * 64 + (bs[3] - 128)
    ELSE (bs[1] - 240) * 262144 + (bs[2] - 128) * 4096
         + (bs[3] - 128) * 64 + (bs[4] - 128)

\* errors='ignore': a byte that starts no complete character is dropped.
RECURSIVE decode_ignore(_)
decode_ignore(bs) ==
    IF bs = <<>> THEN <<>>
    ELSE LET n == continuation_count(bs[1])
         IN  IF /\ n >= 0
                /\ Len(bs) >= n + 1
                /\ \A i \in 2..(n + 1) : is_continuation(bs[i])
             THEN <<decode_char(bs, n)>> \o decode_ignore(SubSeq(bs, n + 2, Len(bs)))
             ELSE decode_ignore(Tail(bs))

\* hashlib.sha256(content.encode('utf-8')).hexdigest(): the digest is kept
\* symbolic, a tag over the bytes hashed, so that two digests are equal
\* exactly when the hashed bytes are.
hash_content(content) == <<"sha256", encode(content)>>

\* A truncation that cuts nothing.
truncate_content_uncut(content, max_size) == content

truncate_content(content, max_size) ==
    LET content_bytes == encode(content)
    IN  IF Len(content_bytes) > max_size
        THEN decode_ignore(SubSeq(content_bytes, 1, max_size))
        ELSE content

(***************************************************************************)
(* Markup reduction (process_data, lines 209-230).  A markup is a sequence *)
(* of tokens: a code point, or a tag: -2 <b>, -3 </b>, -4 <script>,        *)
(* -5 </script>.                                                           *)
(***************************************************************************)
\* tags_to_remove: element.decompose() drops a script element with its text.
RECURSIVE decompose(_, _)
decompose(markup, inside) ==
    IF markup = <<>> THEN <<>>
    ELSE LET t == Head(markup)
         IN  IF t = -4 THEN decompose(Tail(markup), TRUE)
             ELSE IF t = -5 THEN decompose(Tail(markup), FALSE)
             ELSE IF inside THEN decompose(Tail(markup), inside)
             ELSE <<t>> \o decompose(Tail(markup), inside)

\* soup.get_text(separator=' '): the text nodes, joined by one space.
RECURSIVE get_text(_, _, _)
get_text(markup, node, first) ==
    LET flush == IF node = <<>> THEN <<>>
                 ELSE IF first THEN node ELSE <<32>> \o node
        nowfirst == first /\ node = <<>>
    IN  IF markup = <<>> THEN flush
        ELSE IF Head(markup) < 0
             THEN flush \o get_text(Tail(markup), <<>>, nowfirst)
             ELSE get_text(Tail(markup), Append(node, Head(markup)), first)

is_space(c) == c = 32 \/ c = 10 \/ c = 13 \/ c = 9

\* re.sub(r'\s{2,}', ' ', text)
RECURSIVE collapse_spaces(_)
collapse_spaces(text) ==
    IF Len(text) < 2 THEN text
    ELSE IF is_space(text[1]) /\ is_space(text[2])
         THEN LET rest == Tail(Tail(text))
                  skip[t \in Seq(Int)] ==
                      IF t # <<>> /\ is_space(Head(t)) THEN skip[Tail(t)] ELSE t
              IN  <<32>> \o collapse_spaces(skip[rest])
         ELSE <<Head(text)>> \o collapse_spaces(Tail(text))

clean_text(html_content) ==
    collapse_spaces(get_text(decompose(html_content, FALSE), <<>>, TRUE))

(***************************************************************************)
(* The state.                                                              *)
(***************************************************************************)
VARIABLES
    school_data,      \* the site registry: record number -> Site Record
    documents,        \* the document store: a bag of Page Documents
    unique_index,     \* whether the (Base_URL, content_hash) index exists
    pc,               \* per worker: where the process stands
    interrupted,      \* per worker: the global flag of that process
    exited,           \* per worker: SystemExit ended the process
    processed_count,  \* per worker: the counter of scrape_and_store
    claimed,          \* per worker: records find_one_and_update has returned
                      \* to this run of scrape_and_store (a history variable)
    data,             \* per worker: the record find_one_and_update returned
    crawl_results,    \* per worker: the items the provider returned
    position,         \* per worker: the item the for loop stands at
    returned,         \* per worker: how its last process_data returned
    inserted,         \* per worker: how its last insert_document ended
    runs,             \* per worker: times the script was started
    url_in,           \* normalize_base_url: the input, and
    url_out,          \* the results of applying it once and twice
    text_in,          \* insert_document: the content passed, and
    doc_out           \* the document it builds

vars == <<school_data, documents, unique_index, pc, interrupted, exited,
          processed_count, claimed, data, crawl_results, position, returned, inserted,
          runs, url_in, url_out, text_in, doc_out>>

sysvars == <<school_data, documents, unique_index, pc, interrupted, exited,
             processed_count, claimed, data, crawl_results, position, returned, inserted,
             runs>>

purevars == <<url_in, url_out, text_in, doc_out>>

\* Two processes share the collections: every race of the script is one
\* between two of them.
Workers == {1, 2}

(***************************************************************************)
(* The seed records of school_data (WEBADDR, UNITID): two addresses of one *)
(* site, with and without the scheme; an address with a trailing slash;    *)
(* and a record without UNITID.  A registry holds two of them.             *)
(***************************************************************************)
Seeds ==
    << [WEBADDR |-> <<97>>, UNITID |-> 1],                 \* a
       [WEBADDR |-> HTTPS \o <<97>>, UNITID |-> 2],        \* https://a
       [WEBADDR |-> HTTP \o <<98, 47>>, UNITID |-> 3],     \* http://b/
       [WEBADDR |-> <<99>>, UNITID |-> 0] >>               \* c, no UNITID

\* A record as the seeding leaves it: no flag set, no retry_count.
NewSite(seed) ==
    [WEBADDR |-> seed.WEBADDR, UNITID |-> seed.UNITID, processed |-> FALSE,
     processing |-> FALSE, error |-> FALSE, retry_count |-> 0]

Registries ==
    { <<NewSite(Seeds[i]), NewSite(Seeds[j])>> :
        <<i, j>> \in {p \in (1..Len(Seeds)) \X (1..Len(Seeds)) : p[1] < p[2]} }

Sites == DOMAIN school_data

(***************************************************************************)
(* The crawl provider (https://api.spider.cloud/crawl): what a request for *)
(* a site may answer.  Items are {url, content}.                           *)
(***************************************************************************)
Item(url, content) == [url |-> url, content |-> content]

\* <b>x</b> at u; x<script>y</script> at v (the same text, another page);
\* x, e-acute, euro sign at w (6 bytes); no content at y; a page whose
\* document exceeds the store's limit at zzzzzz.
PageB == Item(<<117>>, <<-2, 120, -3>>)
PageScript == Item(<<118>>, <<120, -4, 121, -5>>)
PageLong == Item(<<119>>, <<120, 233, 8364>>)
PageNone == Item(<<121>>, None)
PageHuge == Item(<<122, 122, 122, 122, 122, 122>>, <<120, 120>>)

\* A response: the request raised (network error, raise_for_status), its
\* body never parsed as one JSON object, or the items of the parsed body.
RequestException == [kind |-> "exception", items |-> <<>>]
NoJson == [kind |-> "nojson", items |-> <<>>]
Items(items) == [kind |-> "items", items |-> items]

\* http://b answers no request; the others may fail, or answer with three
\* pages, with two, or with none (data.get('items', [])).
Provider(url) ==
    IF url = HTTP \o <<98>>
    THEN {RequestException, NoJson}
    ELSE {RequestException, NoJson, Items(<<>>),
          Items(<<PageB, PageScript, PageLong>>), Items(<<PageNone, PageHuge>>)}

(***************************************************************************)
(* The document store.                                                     *)
(***************************************************************************)
Stored == BagToSet(documents)

\* documents_collection.count_documents({'Base_URL': .., 'content_hash': ..})
count_documents(docs, base_url, content_hash) ==
    LET hits == {d \in BagToSet(docs) :
                    d.Base_URL = base_url /\ d.content_hash = content_hash}
        RECURSIVE total(_)
        total(S) == IF S = {} THEN 0
                    ELSE LET d == CHOOSE e \in S : TRUE
                         IN  CopiesIn(d, docs) + total(S \ {d})
    IN  total(hits)

\* An existence check that compares the count with >= 0.
document_exists_geq(docs, base_url, content_hash) ==
    LET normalized_url == normalize_base_url(base_url)
    IN  count_documents(docs, normalized_url, content_hash) >= 0

document_exists(docs, base_url, content_hash) ==
    LET normalized_url == normalize_base_url(base_url)
    IN  count_documents(docs, normalized_url, content_hash) > 0

\* The document insert_document builds (date_scraped left out).
new_document(doc_id, base_url, unitid, website, url, content) ==
    [doc_id |-> doc_id, Base_URL |-> base_url, UNITID |-> unitid,
     website |-> website, url |-> url,
     content |-> truncate_content(content, MAX_DOC_SIZE),
     content_hash |-> hash_content(content)]

\* The size pymongo compares with max_bson_size: the bytes of the fields the
\* page supplies (the other fields are of bounded size).
bson_size(doc) == Len(encode(doc.content)) + Len(encode(doc.url))

\* An index that is not unique.
create_indexes_plain == FALSE

\* create_index([('Base_URL', 1), ('content_hash', 1)], unique=True)
create_indexes == TRUE

\* What insert_one raises, if anything.
insert_one_raises(docs, unique, doc) ==
    IF bson_size(doc) > MAX_BSON_SIZE THEN "DocumentTooLarge"
    ELSE IF unique /\ count_documents(docs, doc.Base_URL, doc.content_hash) > 0
         THEN "DuplicateKeyError"
    ELSE "ok"

(***************************************************************************)
(* The site registry.                                                      *)
(***************************************************************************)
\* A completion that sets 'processed' and leaves 'processing' as it is.
set_processed_only(sd, addr) ==
    [r \in DOMAIN sd |->
        IF sd[r].WEBADDR = addr
        THEN [sd[r] EXCEPT !.processed = TRUE]
        ELSE sd[r]]

\* update_one({'WEBADDR': addr}, {'$set': {'processed': True, 'processing': False}})
set_processed(sd, addr) ==
    [r \in DOMAIN sd |->
        IF sd[r].WEBADDR = addr
        THEN [sd[r] EXCEPT !.processed = TRUE, !.processing = FALSE]
        ELSE sd[r]]

\* A release that resets both flags.
set_released_reset(sd, addr) ==
    [r \in DOMAIN sd |->
        IF sd[r].WEBADDR = addr
        THEN [sd[r] EXCEPT !.processed = FALSE, !.processing = FALSE]
        ELSE sd[r]]

\* update_one({'WEBADDR': addr}, {'$set': {'processing': False}})
set_released(sd, addr) ==
    [r \in DOMAIN sd |->
        IF sd[r].WEBADDR = addr
        THEN [sd[r] EXCEPT !.processing = FALSE]
        ELSE sd[r]]

\* A filter that leaves out the 'processing' test.
claim_filter_unlocked(rec) ==
    /\ rec.processed # TRUE
    /\ ~rec.error

\* The filter of find_one_and_update.
claim_filter(rec) ==
    /\ rec.processed # TRUE
    /\ rec.processing # TRUE
    /\ ~rec.error

\* A failure that costs two attempts.
mark_as_error_twice(sd, base_url) ==
    [r \in DOMAIN sd |->
        IF sd[r].WEBADDR = base_url
        THEN [sd[r] EXCEPT !.retry_count = @ + 2]
        ELSE sd[r]]

mark_as_error(sd, base_url) ==
    LET inc == [r \in DOMAIN sd |->
                   IF sd[r].WEBADDR = base_url
                   THEN [sd[r] EXCEPT !.retry_count = @ + 1]
                   ELSE sd[r]]
    IN  [r \in DOMAIN sd |->
            IF inc[r].WEBADDR = base_url /\ inc[r].retry_count >= RETRY_LIMIT
            THEN [inc[r] EXCEPT !.error = TRUE, !.processing = FALSE]
            ELSE inc[r]]

\* baseurl_already_processed: whether a document of the site is stored.
site_has_document(docs, base_url) ==
    LET normalized_url == normalize_base_url(base_url)
    IN  \E d \in BagToSet(docs) : d.Base_URL = normalized_url

(***************************************************************************)
(* The processes.  pc: "start" (scrape_and_store entered), "loop" (the     *)
(* while test), "claim" (fetch_and_process_next_url), "process"            *)
(* (process_data entered), "crawl" (the provider request), "pages" (the    *)
(* top of the for loop), "insert" (before insert_one), "done".             *)
(***************************************************************************)
NoData == [WEBADDR |-> <<>>, UNITID |-> 0]

SysInit ==
    /\ school_data \in Registries
    /\ documents = EmptyBag
    /\ unique_index = FALSE
    /\ pc = [w \in Workers |-> "start"]
    /\ interrupted = [w \in Workers |-> FALSE]
    /\ exited = [w \in Workers |-> FALSE]
    /\ processed_count = [w \in Workers |-> 0]
    /\ claimed = [w \in Workers |-> 0]
    /\ data = [w \in Workers |-> NoData]
    /\ crawl_results = [w \in Workers |-> <<>>]
    /\ position = [w \in Workers |-> 1]
    /\ returned = [w \in Workers |-> "none"]
    /\ inserted = [w \in Workers |-> "none"]
    /\ runs = [w \in Workers |-> 1]

PureIdle ==
    /\ url_in = <<>>
    /\ url_out = <<>>
    /\ text_in = <<>>
    /\ doc_out = <<>>

Init == SysInit /\ PureIdle

Running(w) == pc[w] # "done"

\* The process ends: its memory is gone.
ProcessEnds(w) ==
    /\ pc' = [pc EXCEPT ![w] = "done"]
    /\ processed_count' = [processed_count EXCEPT ![w] = 0]
    /\ claimed' = [claimed EXCEPT ![w] = 0]
    /\ data' = [data EXCEPT ![w] = NoData]
    /\ crawl_results' = [crawl_results EXCEPT ![w] = <<>>]
    /\ position' = [position EXCEPT ![w] = 1]
    /\ returned' = [returned EXCEPT ![w] = "none"]
    /\ inserted' = [inserted EXCEPT ![w] = "none"]

\* A return that leaves the counter of scrape_and_store alone.
Return_nocount(w, how) ==
    /\ returned' = [returned EXCEPT ![w] = how]
    /\ processed_count' = processed_count
    /\ pc' = [pc EXCEPT ![w] = "loop"]

\* process_data returns to fetch_and_process_next_url, which returns to the
\* loop of scrape_and_store: processed_count += 1.
Return(w, how) ==
    /\ returned' = [returned EXCEPT ![w] = how]
    /\ processed_count' = [processed_count EXCEPT ![w] = @ + 1]
    /\ pc' = [pc EXCEPT ![w] = "loop"]

\* scrape_and_store, line 266.
start(w) ==
    /\ Running(w) /\ pc[w] = "start"
    /\ unique_index' = create_indexes
    /\ pc' = [pc EXCEPT ![w] = "loop"]
    /\ UNCHANGED <<school_data, documents, interrupted, exited, processed_count,
                   claimed, data, crawl_results, position, returned, inserted,
                   runs>>
    /\ UNCHANGED purevars

\* scrape_and_store, line 270: the while test.
loop(w) ==
    /\ Running(w) /\ pc[w] = "loop"
    /\ IF processed_count[w] < URL_PROCESS_LIMIT /\ ~interrupted[w]
       THEN /\ pc' = [pc EXCEPT ![w] = "claim"]
            /\ UNCHANGED <<processed_count, claimed, data, crawl_results,
                           position, returned, inserted>>
       ELSE ProcessEnds(w)
    /\ UNCHANGED <<school_data, documents, unique_index, interrupted, exited,
                   runs>>
    /\ UNCHANGED purevars

\* fetch_and_process_next_url, lines 246-258.
fetch_and_process_next_url(w) ==
    /\ Running(w) /\ pc[w] = "claim"
    /\ inserted' = [inserted EXCEPT ![w] = "none"]
    /\ crawl_results' = [crawl_results EXCEPT ![w] = <<>>]
    /\ position' = [position EXCEPT ![w] = 1]
    /\ \/ \E r \in Sites :
            /\ claim_filter(school_data[r])
            /\ school_data' = [school_data EXCEPT ![r].processing = TRUE]
            /\ data' = [data EXCEPT ![w] =
                          [WEBADDR |-> school_data[r].WEBADDR,
                           UNITID |-> school_data[r].UNITID]]
            /\ returned' = [returned EXCEPT ![w] = "none"]
            /\ pc' = [pc EXCEPT ![w] = "process"]
            /\ claimed' = [claimed EXCEPT ![w] = @ + 1]
            /\ UNCHANGED processed_count
       \/ /\ \A r \in Sites : ~claim_filter(school_data[r])
          /\ data' = [data EXCEPT ![w] = NoData]
          /\ Return(w, "nodata")
          /\ UNCHANGED <<school_data, claimed>>
    /\ UNCHANGED <<documents, unique_index, interrupted, exited, runs>>
    /\ UNCHANGED purevars

\* A validation that counts a record without its fields as a failed attempt.
process_data_counted(w) ==
    /\ Running(w) /\ pc[w] = "process"
    /\ LET base_url == data[w].WEBADDR
           unitid == data[w].UNITID
           normalized_base_url == normalize_base_url(base_url)
       IN  IF base_url = <<>> \/ unitid = 0
           THEN /\ Return(w, "missing")
                /\ school_data' = mark_as_error(school_data, base_url)
           ELSE IF site_has_document(documents, normalized_base_url)
           THEN /\ school_data' = set_processed(school_data, normalized_base_url)
                /\ Return(w, "already")
           ELSE /\ pc' = [pc EXCEPT ![w] = "crawl"]
                /\ UNCHANGED <<school_data, returned, processed_count>>
    /\ UNCHANGED <<documents, unique_index, interrupted, exited, claimed, data,
                   crawl_results, position, inserted, runs>>
    /\ UNCHANGED purevars

\* process_data, lines 128-141: the fields, and baseurl_already_processed.
process_data(w) ==
    /\ Running(w) /\ pc[w] = "process"
    /\ LET base_url == data[w].WEBADDR
           unitid == data[w].UNITID
           normalized_base_url == normalize_base_url(base_url)
       IN  IF base_url = <<>> \/ unitid = 0
           THEN /\ Return(w, "missing")
                /\ UNCHANGED school_data
           ELSE IF site_has_document(documents, normalized_base_url)
           THEN /\ school_data' = set_processed(school_data, normalized_base_url)
                /\ Return(w, "already")
           ELSE /\ pc' = [pc EXCEPT ![w] = "crawl"]
                /\ UNCHANGED <<school_data, returned, processed_count>>
    /\ UNCHANGED <<documents, unique_index, interrupted, exited, claimed, data,
                   crawl_results, position, inserted, runs>>
    /\ UNCHANGED purevars

\* process_data, lines 158-196: the request, and mark_as_error on a failure.
crawl(w) ==
    /\ Running(w) /\ pc[w] = "crawl"
    /\ \E response \in Provider(normalize_base_url(data[w].WEBADDR)) :
          IF response.kind = "items"
          THEN /\ crawl_results' = [crawl_results EXCEPT ![w] = response.items]
               /\ pc' = [pc EXCEPT ![w] = "pages"]
               /\ UNCHANGED <<school_data, returned, processed_count>>
          ELSE /\ school_data' = mark_as_error(school_data, data[w].WEBADDR)
               /\ Return(w, "failed")
               /\ UNCHANGED crawl_results
    /\ UNCHANGED <<documents, unique_index, interrupted, exited, claimed, data,
                   position, inserted, runs>>
    /\ UNCHANGED purevars

\* process_data, lines 198-241: one turn of the for loop up to insert_one,
\* or the update after the loop.
pages(w) ==
    /\ Running(w) /\ pc[w] = "pages"
    /\ IF position[w] > Len(crawl_results[w])
       THEN /\ school_data' = set_processed(school_data, data[w].WEBADDR)
            /\ Return(w, "completed")
            /\ UNCHANGED <<inserted, position>>
       ELSE IF interrupted[w]
       THEN /\ school_data' = set_released(school_data, data[w].WEBADDR)
            /\ Return(w, "released")
            /\ UNCHANGED <<inserted, position>>
       ELSE LET item == crawl_results[w][position[w]]
                text == clean_text(item.content)
                normalized_base_url == normalize_base_url(data[w].WEBADDR)
            IN  /\ UNCHANGED <<school_data, returned, processed_count>>
                /\ IF item.content = None
                   THEN /\ position' = [position EXCEPT ![w] = @ + 1]
                        /\ inserted' = [inserted EXCEPT ![w] = "nocontent"]
                        /\ UNCHANGED pc
                   ELSE IF document_exists(documents, normalized_base_url,
                                           hash_content(text))
                           /\ ~UPDATE_EXISTING
                   THEN /\ position' = [position EXCEPT ![w] = @ + 1]
                        /\ inserted' = [inserted EXCEPT ![w] = "exists"]
                        /\ UNCHANGED pc
                   ELSE /\ pc' = [pc EXCEPT ![w] = "insert"]
                        /\ inserted' = [inserted EXCEPT ![w] = "none"]
                        /\ UNCHANGED position
    /\ UNCHANGED <<documents, unique_index, interrupted, exited, claimed, data,
                   crawl_results, runs>>
    /\ UNCHANGED purevars

\* The document insert_document is asked to store for an item of the site
\* of record d (process_data, lines 227-235; insert_document, lines 86-99).
document_for(d, item) ==
    LET text == clean_text(item.content)
        normalized_base_url == normalize_base_url(d.WEBADDR)
    IN  new_document(hash_content(text \o item.url), normalized_base_url,
                     d.UNITID, normalized_base_url, item.url, text)

\* An insert whose exceptions end the session as a failed attempt.
insert_one_aborting(w) ==
    /\ Running(w) /\ pc[w] = "insert"
    /\ LET doc == document_for(data[w], crawl_results[w][position[w]])
           raised == insert_one_raises(documents, unique_index, doc)
       IN  /\ documents' = IF raised = "ok"
                           THEN documents (+) SetToBag({doc})
                           ELSE documents
           /\ inserted' = [inserted EXCEPT ![w] = raised]
           /\ IF raised = "ok"
              THEN /\ pc' = [pc EXCEPT ![w] = "pages"]
                   /\ UNCHANGED <<school_data, processed_count, returned>>
              ELSE /\ school_data' = mark_as_error(school_data, data[w].WEBADDR)
                   /\ Return(w, "failed")
    /\ position' = [position EXCEPT ![w] = @ + 1]
    /\ UNCHANGED <<unique_index, interrupted, exited, claimed, data,
                   crawl_results, runs>>
    /\ UNCHANGED purevars

\* insert_document, lines 89-103: insert_one and its two exceptions.
insert_one(w) ==
    /\ Running(w) /\ pc[w] = "insert"
    /\ LET doc == document_for(data[w], crawl_results[w][position[w]])
           raised == insert_one_raises(documents, unique_index, doc)
       IN  /\ documents' = IF raised = "ok"
                           THEN documents (+) SetToBag({doc})
                           ELSE documents
           /\ inserted' = [inserted EXCEPT ![w] = raised]
    /\ position' = [position EXCEPT ![w] = @ + 1]
    /\ pc' = [pc EXCEPT ![w] = "pages"]
    /\ UNCHANGED <<school_data, unique_index, interrupted, exited,
                   processed_count, claimed, data, crawl_results, returned, runs>>
    /\ UNCHANGED purevars

\* signal_handler, lines 47-52: the flag is set and sys.exit(0) raises
\* SystemExit in the main thread, at whatever instruction it is running.  No
\* except clause of the script catches it (line 186 catches Exception): the
\* process ends where it stands.  When the interpreter is running a finalizer
\* or a callback whose exceptions are ignored, the SystemExit is discarded
\* there: the flag stays set and the script goes on.
signal_handler(w) ==
    /\ Running(w)
    /\ interrupted' = [interrupted EXCEPT ![w] = TRUE]
    /\ \/ /\ exited' = [exited EXCEPT ![w] = TRUE]
          /\ ProcessEnds(w)
       \/ /\ ~interrupted[w]
          /\ UNCHANGED <<exited, pc, processed_count, claimed, data,
                         crawl_results, position, returned, inserted>>
    /\ UNCHANGED <<school_data, documents, unique_index, runs>>
    /\ UNCHANGED purevars

\* The script is started again (line 281) in a new process.
main(w) ==
    /\ ~Running(w)
    /\ runs[w] < MaxRuns
    /\ runs' = [runs EXCEPT ![w] = @ + 1]
    /\ pc' = [pc EXCEPT ![w] = "start"]
    /\ interrupted' = [interrupted EXCEPT ![w] = FALSE]
    /\ exited' = [exited EXCEPT ![w] = FALSE]
    /\ UNCHANGED <<school_data, documents, unique_index, processed_count,
                   claimed, data, crawl_results, position, returned, inserted>>
    /\ UNCHANGED purevars

Next ==
    \/ \E w \in Workers : start(w)
    \/ \E w \in Workers : loop(w)
    \/ \E w \in Workers : fetch_and_process_next_url(w)
    \/ \E w \in Workers : process_data(w)
    \/ \E w \in Workers : crawl(w)
    \/ \E w \in Workers : pages(w)
    \/ \E w \in Workers : insert_one(w)
    \/ \E w \in Workers : signal_handler(w)
    \/ \E w \in Workers : main(w)

Spec == Init /\ [][Next]_vars

(***************************************************************************)
(* normalize_base_url on its own: an input is drawn, and the function is   *)
(* applied to it and then to its own result.                               *)
(***************************************************************************)
RECURSIVE SeqsUpTo(_, _)
SeqsUpTo(S, n) ==
    IF n = 0 THEN {<<>>}
    ELSE LET shorter == SeqsUpTo(S, n - 1)
         IN  shorter \cup {Append(t, c) : t \in shorter, c \in S}

\* Nothing, a scheme, a scheme short of a slash or in capitals; then up to
\* MaxBody characters among 'a' and '/'.
UrlInputs ==
    { prefix \o body :
        prefix \in {<<>>, HTTP, HTTPS, <<104, 116, 116, 112, 58, 47>>,
                    <<72, 84, 84, 80, 58, 47, 47>>},
        body \in SeqsUpTo({97, 47}, MaxBody) }

SysIdle ==
    /\ school_data = <<>>
    /\ documents = EmptyBag
    /\ unique_index = FALSE
    /\ pc = [w \in Workers |-> "done"]
    /\ interrupted = [w \in Workers |-> FALSE]
    /\ exited = [w \in Workers |-> FALSE]
    /\ processed_count = [w \in Workers |-> 0]
    /\ claimed = [w \in Workers |-> 0]
    /\ data = [w \in Workers |-> NoData]
    /\ crawl_results = [w \in Workers |-> <<>>]
    /\ position = [w \in Workers |-> 1]
    /\ returned = [w \in Workers |-> "none"]
    /\ inserted = [w \in Workers |-> "none"]
    /\ runs = [w \in Workers |-> MaxRuns]

NormalizeInit ==
    /\ SysIdle
    /\ url_in \in UrlInputs
    /\ url_out = <<>>
    /\ text_in = <<>>
    /\ doc_out = <<>>

\* url_out[1] = normalize_base_url(url_in), url_out[2] = its normalization.
normalize(url) ==
    /\ Len(url_out) < 2
    /\ url_out' = Append(url_out, normalize_base_url(url))
    /\ UNCHANGED <<url_in, text_in, doc_out>>
    /\ UNCHANGED sysvars

NormalizeNext ==
    \/ url_out = <<>> /\ normalize(url_in)
    \/ Len(url_out) = 1 /\ normalize(url_out[1])

SpecNormalize == NormalizeInit /\ [][NormalizeNext]_vars

(***************************************************************************)
(* insert_document on its own: a cleaned text is drawn, and the document   *)
(* insert_one is given for it is built.                                    *)
(***************************************************************************)
\* x (1 byte), e-acute (2), the euro sign (3), an emoji (4).
Texts == SeqsUpTo({120, 233, 8364, 128512}, MaxText)

InsertInit ==
    /\ SysIdle
    /\ text_in \in Texts
    /\ doc_out = <<>>
    /\ url_in = <<>>
    /\ url_out = <<>>

insert_document(base_url, unitid, url) ==
    /\ doc_out = <<>>
    /\ doc_out' = <<new_document(hash_content(text_in \o url), base_url, unitid,
                                 base_url, url, text_in)>>
    /\ UNCHANGED <<url_in, url_out, text_in>>
    /\ UNCHANGED sysvars

InsertNext == insert_document(HTTPS \o <<97>>, 1, <<117>>)

SpecInsert == InsertInit /\ [][InsertNext]_vars

(***************************************************************************)
(* One run of scrape_and_store after another in a single process, over a   *)
(* registry of all the seed records (more records than URL_PROCESS_LIMIT), *)
(* with the scheduling of a running process: it keeps executing.           *)
(***************************************************************************)
\* The seed records, and one without WEBADDR.
BatchSeeds == Seeds \o << [WEBADDR |-> <<>>, UNITID |-> 4] >>

BatchInit ==
    /\ school_data = [i \in 1..Len(BatchSeeds) |-> NewSite(BatchSeeds[i])]
    /\ documents = EmptyBag
    /\ unique_index = FALSE
    /\ pc = [w \in Workers |-> IF w = 1 THEN "start" ELSE "done"]
    /\ interrupted = [w \in Workers |-> FALSE]
    /\ exited = [w \in Workers |-> FALSE]
    /\ processed_count = [w \in Workers |-> 0]
    /\ claimed = [w \in Workers |-> 0]
    /\ data = [w \in Workers |-> NoData]
    /\ crawl_results = [w \in Workers |-> <<>>]
    /\ position = [w \in Workers |-> 1]
    /\ returned = [w \in Workers |-> "none"]
    /\ inserted = [w \in Workers |-> "none"]
    /\ runs = [w \in Workers |-> IF w = 1 THEN 1 ELSE MaxRuns]
    /\ PureIdle

\* A process that is running executes its next statement; every request it
\* makes (to MongoDB, to the provider) returns.  Signals and restarts are
\* the environment's, and are not fair.  insert_one(w) is enabled exactly
\* when pc[w] = "insert": its weak fairness is written with that predicate.
Fair(w) ==
    /\ WF_vars(start(w))
    /\ WF_vars(loop(w))
    /\ WF_vars(fetch_and_process_next_url(w))
    /\ WF_vars(process_data(w))
    /\ WF_vars(crawl(w))
    /\ WF_vars(pages(w))
    /\ ([]<>(pc[w] # "insert") \/ []<><<insert_one(w)>>_vars)

SpecBatch == BatchInit /\ [][Next]_vars /\ \A w \in Workers : Fair(w)

(***************************************************************************)
(* Properties.                                                             *)
(***************************************************************************)
InSession(w) == pc[w] \in {"process", "crawl", "pages", "insert"}

\* The record with the given WEBADDR (the registry is keyed by address).
SiteOf(addr) == CHOOSE r \in Sites : school_data[r].WEBADDR = addr

\* The state the three flags encode.
State(rec) ==
    IF rec.processed THEN "Completed"
    ELSE IF rec.error THEN "Errored"
    ELSE IF rec.processing THEN "Claimed"
    ELSE "Pending"

\* C1: no Site Record is being processed by two workers at once: two workers
\* inside process_data never hold the same record.
C1_OneWorkerPerRecord ==
    \A w1, w2 \in Workers :
        (w1 # w2 /\ InSession(w1) /\ InSession(w2))
            => data[w1].WEBADDR # data[w2].WEBADDR

\* Two workers are inside process_data at once, each with its own record.
C1_TwoSessions == InSession(1) /\ InSession(2)

\* C2: no two stored Page Documents share (Base_URL, content_hash).
C2_UniqueKey ==
    \A d \in Stored : count_documents(documents, d.Base_URL, d.content_hash) = 1

\* Two workers passed the exists check for one key and the second insert_one
\* was refused by the index.
C2_RaceRefused ==
    \E w \in Workers : inserted[w] = "DuplicateKeyError" /\ Stored # {}

DeadSite(rec) ==
    \A response \in Provider(normalize_base_url(rec.WEBADDR)) :
        response.kind # "items"

HeldBy(w, rec) == InSession(w) /\ data[w].WEBADDR = rec.WEBADDR

\* C3: a site whose every request fails is claimed and attempted until it is
\* Errored with retry_count = RETRY_LIMIT: once it has been attempted, it is
\* either still to be claimed, or in a worker's hands, or Errored after
\* RETRY_LIMIT attempts.
C3_FailingSiteEndsErrored ==
    \A r \in Sites :
        LET rec == school_data[r]
        IN  (/\ DeadSite(rec)
             /\ rec.retry_count > 0
             /\ ~claim_filter(rec)
             /\ \A w \in Workers : ~HeldBy(w, rec))
                => (rec.error /\ rec.retry_count = RETRY_LIMIT)

\* C4: when the store holds a document of the normalized address of a claimed
\* record (address and UNITID present), the session's step out of the
\* pre-check does not go to the provider and leaves the record Completed.
C4_ShortCircuitCompletes ==
    [][\A w \in Workers :
          (/\ pc[w] = "process"
           /\ pc'[w] \in {"loop", "crawl"}
           /\ data[w].WEBADDR # <<>> /\ data[w].UNITID # 0
           /\ \E d \in Stored :
                 d.Base_URL = normalize_base_url(data[w].WEBADDR))
              => (/\ pc'[w] = "loop"
                  /\ returned'[w] = "already"
                  /\ State(school_data'[SiteOf(data[w].WEBADDR)]) = "Completed")
      ]_vars

\* C5: when a cancellation ends a session that stands in the page loop, that
\* step stores nothing, leaves the record Pending and its retry_count as it
\* was.
C5_CancelReleases ==
    [][\A w \in Workers :
          (/\ pc[w] \in {"pages", "insert"}
           /\ interrupted'[w]
           /\ \/ pc'[w] = "done" /\ exited'[w]
              \/ pc'[w] = "loop" /\ returned'[w] = "released")
              => LET r == SiteOf(data[w].WEBADDR)
                 IN  /\ documents' = documents
                     /\ (State(school_data[r]) = "Claimed"
                            => State(school_data'[r]) = "Pending")
                     /\ school_data'[r].retry_count = school_data[r].retry_count
      ]_vars

\* The stored documents of the site of d that hold the cleaned text of item.
CopiesOf(d, item) ==
    count_documents(documents, normalize_base_url(d.WEBADDR),
                    hash_content(clean_text(item.content)))

\* C6 as stated: after a session that passed the pre-check, got its items and
\* ran to the end, the record is Completed and every returned page with
\* content has exactly one stored document of its cleaned text.
C6_OneDocumentPerText ==
    \A w \in Workers :
        returned[w] = "completed"
            => /\ State(school_data[SiteOf(data[w].WEBADDR)]) = "Completed"
               /\ \A i \in 1..Len(crawl_results[w]) :
                     crawl_results[w][i].content # None
                        => CopiesOf(data[w], crawl_results[w][i]) = 1

\* C6 amended: the same, for the pages whose document the store does not
\* refuse as too large.
C6_OneDocumentPerAcceptedText ==
    \A w \in Workers :
        returned[w] = "completed"
            => /\ State(school_data[SiteOf(data[w].WEBADDR)]) = "Completed"
               /\ \A i \in 1..Len(crawl_results[w]) :
                     LET item == crawl_results[w][i]
                     IN  (/\ item.content # None
                          /\ bson_size(document_for(data[w], item)) <= MAX_BSON_SIZE)
                            => CopiesOf(data[w], item) = 1

\* A session ran to the end over items of which two share their cleaned text.
C6_CompletedWithPages ==
    \E w \in Workers :
        /\ returned[w] = "completed"
        /\ \E i, j \in 1..Len(crawl_results[w]) :
              /\ i # j
              /\ crawl_results[w][i].content # None
              /\ crawl_results[w][j].content # None
              /\ clean_text(crawl_results[w][i].content)
                    = clean_text(crawl_results[w][j].content)

IsPrefix(p, t) == Len(p) <= Len(t) /\ SubSeq(t, 1, Len(p)) = p

\* C7: the document built for a text holds a prefix of the text of at most
\* MAX_DOC_SIZE bytes, the whole text when that fits, and the hash of the
\* whole text, which is not the hash of a truncated content.
C7_TruncatedContentFullHash ==
    doc_out # <<>>
        => LET d == doc_out[1]
               size == Len(encode(text_in))
           IN  /\ IsPrefix(d.content, text_in)
               /\ Len(encode(d.content)) <= MAX_DOC_SIZE
               /\ d.content_hash = hash_content(text_in)
               /\ size <= MAX_DOC_SIZE => d.content = text_in
               /\ size > MAX_DOC_SIZE => d.content_hash # hash_content(d.content)

\* A text over the cap was cut inside a character, whose bytes were dropped.
C7_CutInsideCharacter ==
    /\ doc_out # <<>>
    /\ Len(encode(text_in)) > MAX_DOC_SIZE
    /\ Len(encode(doc_out[1].content)) < MAX_DOC_SIZE
    /\ doc_out[1].content # <<>>

\* C8: normalize_base_url is idempotent.
C8_Idempotent == Len(url_out) = 2 => url_out[2] = url_out[1]

\* C9: the result of normalize_base_url starts with 'http://' or 'https://'
\* and does not end with '/'.
C9_SchemeAndNoTrailingSlash ==
    Len(url_out) >= 1
        => /\ startswith(url_out[1], HTTP) \/ startswith(url_out[1], HTTPS)
           /\ url_out[1] = <<>> \/ url_out[1][Len(url_out[1])] # 47

\* C10: a Completed or Errored record keeps its state in every step, and no
\* find_one_and_update returns it.
C10_Terminal ==
    [][\A r \in Sites :
          State(school_data[r]) \in {"Completed", "Errored"}
              => /\ State(school_data'[r]) = State(school_data[r])
                 /\ \A w \in Workers :
                       ~(/\ pc[w] = "claim"
                         /\ pc'[w] = "process"
                         /\ data'[w].WEBADDR = school_data[r].WEBADDR)
      ]_vars

\* A session is still at work on a record that another session has marked
\* Completed: its remaining updates act on a Completed record.
C10_SessionOnCompleted ==
    \E w \in Workers :
        /\ pc[w] \in {"pages", "insert"}
        /\ State(school_data[SiteOf(data[w].WEBADDR)]) = "Completed"

\* C11: once find_one_and_update has returned None, the batch stops: the
\* iteration that found no record is not counted in processed_count, and the
\* loop makes no further call of fetch_and_process_next_url.
C11_StopsAtNone ==
    [][\A w \in Workers :
          /\ (pc[w] = "claim" /\ pc'[w] = "loop" /\ returned'[w] = "nodata")
                => processed_count'[w] = processed_count[w]
          /\ (pc[w] = "loop" /\ returned[w] = "nodata") => pc'[w] # "claim"
      ]_vars

\* C12 as stated: every run of scrape_and_store ends, claims at most
\* URL_PROCESS_LIMIT records, and claims none once its flag is set.
C12_EndsWithinLimitNoClaimOnceSignaled ==
    /\ \A w \in Workers : (pc[w] = "start") ~> (pc[w] = "done")
    /\ [](\A w \in Workers : claimed[w] <= URL_PROCESS_LIMIT)
    /\ [][\A w \in Workers : interrupted[w] => claimed'[w] <= claimed[w]]_vars

\* C12 amended: every run of scrape_and_store ends, claims at most
\* URL_PROCESS_LIMIT records, and claims none once its while test has found
\* the flag set.
C12_EndsWithinLimitNoClaimOnceObserved ==
    /\ \A w \in Workers : (pc[w] = "start") ~> (pc[w] = "done")
    /\ [](\A w \in Workers : claimed[w] <= URL_PROCESS_LIMIT)
    /\ [][\A w \in Workers :
             (pc[w] = "loop" /\ interrupted[w])
                => (pc'[w] \in {"loop", "done"} /\ claimed'[w] <= claimed[w])
         ]_vars

\* A run is at its while test after URL_PROCESS_LIMIT claims, and a record is
\* still there to be claimed.
C12_LimitReachedWithPending ==
    \E w \in Workers :
        /\ pc[w] = "loop"
        /\ claimed[w] = URL_PROCESS_LIMIT
        /\ processed_count[w] = URL_PROCESS_LIMIT
        /\ \E r \in Sites : claim_filter(school_data[r])

\* C13: a failed attempt on a Claimed record that leaves its retry_count
\* below RETRY_LIMIT leaves the record Pending: the filter of
\* find_one_and_update matches it again.
C13_FailedBelowLimitIsPending ==
    [][\A w \in Workers :
          (pc[w] = "crawl" /\ pc'[w] = "loop" /\ returned'[w] = "failed")
              => LET r == SiteOf(data[w].WEBADDR)
                 IN  (/\ State(school_data[r]) = "Claimed"
                      /\ school_data'[r].retry_count < RETRY_LIMIT)
                        => (/\ State(school_data'[r]) = "Pending"
                            /\ claim_filter(school_data'[r]))
      ]_vars

\* C14: a failed request adds exactly 1 to the retry_count of the session's
\* record and stores nothing, and no other step changes a retry_count.
C14_RetryCountOnlyOnFailure ==
    [][/\ \A w \in Workers :
             (pc[w] = "crawl" /\ pc'[w] = "loop")
                => /\ returned'[w] = "failed"
                   /\ documents' = documents
                   /\ \A r \in Sites :
                         school_data'[r].retry_count =
                            IF school_data[r].WEBADDR = data[w].WEBADDR
                            THEN school_data[r].retry_count + 1
                            ELSE school_data[r].retry_count
       /\ (\E r \in Sites :
               school_data'[r].retry_count # school_data[r].retry_count)
             => \E w \in Workers :
                   /\ pc[w] = "crawl" /\ pc'[w] = "loop"
                   /\ returned'[w] = "failed"
      ]_vars

\* A session has ended on a failed request, after another session stored the
\* pages of another site: one record has retry_count 1.
C14_FailedAfterStores ==
    \E w \in Workers :
        /\ returned[w] = "failed"
        /\ school_data[SiteOf(data[w].WEBADDR)].retry_count = 1
        /\ Stored # {}

\* C15: the step of a session whose record has no WEBADDR or no UNITID goes
\* back to the loop without a request to the provider, and leaves the
\* registry (the record as find_one_and_update left it) and the store as
\* they are.
C15_MalformedRecordNoTransition ==
    [][\A w \in Workers :
          (/\ pc[w] = "process" /\ pc'[w] # "process"
           /\ data[w].WEBADDR = <<>> \/ data[w].UNITID = 0)
              => /\ pc'[w] \in {"loop", "done"}
                 /\ pc'[w] = "loop" => returned'[w] = "missing"
                 /\ school_data' = school_data
                 /\ documents' = documents
      ]_vars

\* A run has gone through the record without WEBADDR and the record without
\* UNITID: both are as find_one_and_update left them.
C15_BothMalformedSkipped ==
    /\ returned[1] = "missing"
    /\ \A r \in Sites :
          (school_data[r].WEBADDR = <<>> \/ school_data[r].UNITID = 0)
              => /\ State(school_data[r]) = "Claimed"
                 /\ school_data[r].retry_count = 0

\* C16: a page skipped for its missing content, by the exists check, by the
\* unique index or for its size leaves the session in the for loop at the next
\* page, with the registry untouched; the loop is left only after the last
\* page or on the interrupted flag; and leaving it after the last page leaves
\* the record Completed with its retry_count as it was.
C16_SkipsDoNotAbort ==
    [][\A w \in Workers :
          LET r == SiteOf(data[w].WEBADDR)
          IN  /\ (/\ pc[w] \in {"pages", "insert"}
                  /\ position'[w] = position[w] + 1
                  /\ inserted'[w] \in {"nocontent", "exists",
                                       "DuplicateKeyError", "DocumentTooLarge"})
                    => /\ pc'[w] = "pages"
                       /\ crawl_results'[w] = crawl_results[w]
                       /\ school_data' = school_data
              /\ (pc[w] = "pages" /\ pc'[w] = "loop")
                    => (position[w] > Len(crawl_results[w]) \/ interrupted[w])
              /\ (/\ pc[w] = "pages" /\ pc'[w] = "loop"
                  /\ position[w] > Len(crawl_results[w]))
                    => /\ State(school_data'[r]) = "Completed"
                       /\ school_data'[r].retry_count = school_data[r].retry_count
      ]_vars

\* A session has ended Completed over items of which the first had no content
\* and the last was refused for its size.
C16_CompletedOverSkippedPages ==
    \E w \in Workers :
        /\ returned[w] = "completed"
        /\ Len(crawl_results[w]) > 1
        /\ crawl_results[w][1].content = None
        /\ inserted[w] = "DocumentTooLarge"
        /\ State(school_data[SiteOf(data[w].WEBADDR)]) = "Completed"

\* C17: a step of a session changes no record of the registry but the one
\* the session holds.
C17_WritesOnlyOwnRecord ==
    [][\A w \in Workers :
          (InSession(w) /\ (pc'[w] # pc[w] \/ position'[w] # position[w]))
              => \A r \in Sites :
                    school_data[r].WEBADDR # data[w].WEBADDR
                       => school_data'[r] = school_data[r]
      ]_vars

\* C18: the step in which a session ends (process_data returns, or the process
\* ends inside it) does not leave the session's record Claimed.
C18_NoRecordLeftClaimed ==
    [][\A w \in Workers :
          (InSession(w) /\ pc'[w] \in {"loop", "done"})
              => State(school_data'[SiteOf(data[w].WEBADDR)]) # "Claimed"
      ]_vars

\* C19: no record has two of the flags processed, processing and error set.
C19_OneFlagAtMost ==
    \A r \in Sites :
        LET rec == school_data[r]
        IN  /\ ~(rec.processed /\ rec.processing)
            /\ ~(rec.processed /\ rec.error)
            /\ ~(rec.processing /\ rec.error)

\* A session has released its record after the session of an alias had marked
\* that record processed: the release wrote to a Completed record.
C19_ReleasedOnCompleted ==
    \E w \in Workers :
        /\ returned[w] = "released"
        /\ school_data[SiteOf(data[w].WEBADDR)].processed

\* The record of w is the only one of the registry with its normalized
\* address.
NoAlias(w) ==
    \A r \in Sites :
        normalize_base_url(school_data[r].WEBADDR)
              = normalize_base_url(data[w].WEBADDR)
            => school_data[r].WEBADDR = data[w].WEBADDR

\* C20: a record becomes Completed only in the step that leaves the for loop
\* of its session after the last item; and the session of a record with its
\* fields and without an alias (every stored document of its site is of an
\* earlier, unfinished session of that record) goes on to the provider.
C20_ReleasedSiteCrawledAgain ==
    [][/\ \A r \in Sites :
             (/\ State(school_data[r]) # "Completed"
              /\ State(school_data'[r]) = "Completed")
                => \E w \in Workers :
                      /\ pc[w] = "pages"
                      /\ data[w].WEBADDR = school_data[r].WEBADDR
                      /\ position[w] > Len(crawl_results[w])
       /\ \A w \in Workers :
             (/\ pc[w] = "process" /\ pc'[w] \notin {"process", "done"}
              /\ data[w].WEBADDR # <<>> /\ data[w].UNITID # 0
              /\ NoAlias(w))
                => pc'[w] = "crawl"
      ]_vars

====
